---- MODULE Spec2Model ----
(***************************************************************************)
(* A model of the indexed k-mer count (IKC) reader, src/io/ikc.py, and of  *)
(* the k-mer utility it depends on, src/util/kmer.py.                      *)
(*                                                                         *)
(* The file is a sequence of bytes.  Opening it (IKCReader.__init__),      *)
(* tearing the reader down (__del__), a lookup (get) and one step of each  *)
(* of the two generators (iter_min_order, iter_kmer_order) are the         *)
(* actions.  The position of the memory-mapped file is reader state: every *)
(* seek and every read of the code moves it.                               *)
(***************************************************************************)
EXTENDS Integers, Sequences, FiniteSets, TLC

VARIABLES
    file,          \* the bytes of the IKC file on disk
    state,         \* "new" | "open" | "failed": how IKCReader(...) ended
    error,         \* the exception __init__ raised ("" when none)
    ikc_file,      \* self.__ikc_file: "None" | "open"
    mmap_file,     \* self.__mmap_file: "None" | "open"
    file_closes,   \* number of close() calls made on the file object
    mmap_closes,   \* number of close() calls made on the mapping
    n_del,         \* number of times __del__ ran
    pos,           \* position of the memory-mapped file (mmap_file.tell())
    ikc_header,    \* self.ikc_header (set: FALSE before get_header returns)
    min_index,     \* self.__min_index: sequence of <<minimizer, offset, n>> in insertion order
    cache,         \* [min, offset, n]: self.__last_min, __last_min_offset, __last_min_n
    res,           \* what the last get() call did
    it_min,        \* the iter_min_order generator
    it_kmer,       \* the iter_kmer_order generator
    kutil          \* a KmerUtil(k_size, k_min_size) and the minimizer(kmer) call made on it

vars == <<file, state, error, ikc_file, mmap_file, file_closes, mmap_closes, n_del,
          pos, ikc_header, min_index, cache, res, it_min, it_kmer, kutil>>

\* Bound: how many times __del__ is run on one reader.
MaxDel == 2

\* Bound: how many operations on the reader run between the pulls of one
\* iter_min_order generator, over its life.
MaxMoved == 1

\* Bound: the largest k_size of a KmerUtil whose minimizer is called on its own.
MaxKSize == 4

Min2(a, b) == IF a < b THEN a ELSE b

---------------------------------------------------------------------------
(* Bytes and integer fields                                                *)

RECURSIVE ToBytes(_, _)
\* int.to_bytes(n, 'big') of a value >= 0.
ToBytes(v, n) == IF n = 0 THEN <<>> ELSE ToBytes(v \div 256, n - 1) \o <<v % 256>>

RECURSIVE FromBytesU(_)
\* int.from_bytes(b, 'big', signed=False); the empty string is 0.
FromBytesU(b) ==
    IF b = <<>> THEN 0
    ELSE FromBytesU(SubSeq(b, 1, Len(b) - 1)) * 256 + b[Len(b)]

\* int.from_bytes(b, 'big', signed=...): two's complement over the bytes read.
FromBytes(b, signed) ==
    IF signed /\ b # <<>> /\ b[1] >= 128
    THEN -(FromBytesU([i \in 1..Len(b) |-> 255 - b[i]]) + 1)
    ELSE FromBytesU(b)

\* mmap.read(n) at position p: the bytes up to the end of the mapping.
Read(f, p, n) == SubSeq(f, p + 1, Min2(p + n, Len(f)))

\* mmap.tell() after read(n) at position p.
Tell(f, p, n) == Min2(p + n, Len(f))

\* mmap.seek(p) raises ValueError outside 0..size.
SeekOk(f, p) == p >= 0 /\ p <= Len(f)

get_int_field(f, p, n, signed) == FromBytes(Read(f, p, n), signed)

---------------------------------------------------------------------------
(* KmerUtil                                                                *)

RECURSIVE Pow4(_)
Pow4(n) == IF n <= 0 THEN 1 ELSE 4 * Pow4(n - 1)

\* self.k_mask = ~(~0 << (k_size * 2)); x & k_mask for x >= 0 is x % 4^k_size.
k_mask(k_size) == Pow4(k_size) - 1

word_size(k_size) == ((k_size - 1) \div 16) + 1

word_size_bytes(k_size) == ((k_size - 1) \div 4) + 1

RECURSIVE RevLoop(_, _, _)
RevLoop(n, kmer, rev_kmer) ==
    IF n = 0 THEN rev_kmer \div 4
    ELSE RevLoop(n - 1, kmer \div 4, (rev_kmer + (3 - (kmer % 4))) * 4)

rev_complement(k_size, kmer) == RevLoop(k_size, kmer, 0)

RECURSIVE MinimizerLoop(_, _, _, _)
MinimizerLoop(n, k_min_size, kmer, min_kmer) ==
    IF n <= 0 THEN min_kmer
    ELSE LET shifted       == kmer \div 4
             next_kmer     == shifted % Pow4(k_min_size)
             next_rev_kmer == rev_complement(k_min_size, next_kmer)
             m1            == IF next_kmer < min_kmer THEN next_kmer ELSE min_kmer
             m2            == IF next_rev_kmer < m1 THEN next_rev_kmer ELSE m1
         IN  MinimizerLoop(n - 1, k_min_size, shifted, m2)

\* A minimizer that leaves the last sub-k-mer out.
minimizer_short(k_size, k_min_size, kmer) ==
    LET first         == kmer % Pow4(k_min_size)
        next_rev_kmer == rev_complement(k_min_size, first)
        min_kmer      == IF next_rev_kmer < first THEN next_rev_kmer ELSE first
        sub_per_kmer  == k_size - k_min_size + 1
    IN  MinimizerLoop(sub_per_kmer - 2, k_min_size, kmer, min_kmer)

minimizer(k_size, k_min_size, kmer) ==
    LET first         == kmer % Pow4(k_min_size)
        next_rev_kmer == rev_complement(k_min_size, first)
        min_kmer      == IF next_rev_kmer < first THEN next_rev_kmer ELSE first
        sub_per_kmer  == k_size - k_min_size + 1
    IN  MinimizerLoop(sub_per_kmer - 1, k_min_size, kmer, min_kmer)

---------------------------------------------------------------------------
(* get_header, get_ikc_header_v1                                           *)

Magic == <<73, 100, 120, 95, 75, 109, 101, 114, 95, 67, 111, 117, 110, 116, 0>>

NoHeader ==
    [set |-> FALSE, k_size |-> 0, k_min_size |-> 0, k_min_mask |-> 0,
     offset_data |-> 0, offset_index |-> 0, offset_meta |-> 0, offset_eof |-> 0,
     id_string |-> <<>>]

RECURSIVE UpToNul(_)
\* mmap_file.read(32).split(b'\x00')[0]
UpToNul(b) == IF b = <<>> \/ b[1] = 0 THEN <<>> ELSE <<b[1]>> \o UpToNul(Tail(b))

RECURSIVE ReservedLoop(_, _)
\* The reserved bytes 16..22, in order: read_byte() raises ValueError at the end
\* of the mapping; a byte that is not 0 is a RuntimeError.
ReservedLoop(f, index) ==
    IF index = 7 THEN ""
    ELSE IF 16 + index >= Len(f) THEN "ValueError"
    ELSE IF f[16 + index + 1] # 0 THEN "ReservedFieldNonZero"
    ELSE ReservedLoop(f, index + 1)

ReservedError(f) == ReservedLoop(f, 0)

get_ikc_header_v1(f) ==
    LET k_min_size   == get_int_field(f, 23, 1, TRUE)
        k_size       == get_int_field(f, 24, 4, TRUE)
        k_min_mask   == get_int_field(f, 28, 4, TRUE)
        offset_index == get_int_field(f, 32, 8, TRUE)
        offset_meta  == get_int_field(f, 40, 8, TRUE)
        id_string    == UpToNul(Read(f, 48, 32))
        offset_data  == Tell(f, 48, 32)
        offset_eof   == Len(f)
    IN  IF ReservedError(f) # "" THEN [err |-> ReservedError(f), hdr |-> NoHeader]
        ELSE IF ~(0 < k_min_size /\ k_min_size < 16)
        THEN [err |-> "InvalidMinimizerSize", hdr |-> NoHeader]
        ELSE IF k_size < 1 THEN [err |-> "InvalidKSize", hdr |-> NoHeader]
        ELSE IF k_min_mask # 0 THEN [err |-> "UnsupportedMinimizerMask", hdr |-> NoHeader]
        ELSE [err |-> "",
              hdr |-> [set |-> TRUE, k_size |-> k_size, k_min_size |-> k_min_size,
                       k_min_mask |-> k_min_mask, offset_data |-> offset_data,
                       offset_index |-> offset_index, offset_meta |-> offset_meta,
                       offset_eof |-> offset_eof, id_string |-> id_string]]

get_header(f) ==
    IF Read(f, 0, 15) # Magic THEN [err |-> "BadMagic", hdr |-> NoHeader]
    ELSE IF get_int_field(f, 15, 1, TRUE) # 1 THEN [err |-> "UnsupportedVersion", hdr |-> NoHeader]
    ELSE get_ikc_header_v1(f)

---------------------------------------------------------------------------
(* IKCReader.__read_index                                                  *)

\* minimizer in self.__min_index
InIndex(index, m) == \E i \in 1..Len(index) : index[i][1] = m

\* self.__min_index[m]
IndexEntry(index, m) == index[CHOOSE i \in 1..Len(index) : index[i][1] = m]

\* Number of bytes per data record as __read_index computes it.
index_record_size(hdr) == word_size_bytes(hdr.k_size) + 4

\* The bounds check with the lower bound not strict.
BoundsOkNotStrict(offset, next_offset, end_location) ==
    offset <= next_offset /\ next_offset < end_location

\* offset < next_offset < end_location
BoundsOk(offset, next_offset, end_location) ==
    offset < next_offset /\ next_offset < end_location

\* if minimizer in self.__min_index: raise
DuplicateFound(index, m) == InIndex(index, m)

RECURSIVE ReadIndexLoop(_, _, _, _, _, _)
\* The while loop of __read_index: p is mmap_file.tell(), (m, offset) the record
\* read last, index the dict built so far.
ReadIndexLoop(f, hdr, p, m, offset, index) ==
    IF ~(p < hdr.offset_meta) THEN [err |-> "", index |-> index, pos |-> p]
    ELSE LET next_minimizer == get_int_field(f, p, 4, FALSE)
             p1             == Tell(f, p, 4)
             next_offset    == get_int_field(f, p1, 8, FALSE)
             p2             == Tell(f, p1, 8)
             group_len      == next_offset - offset
             record_size    == index_record_size(hdr)
         IN  IF ~BoundsOk(offset, next_offset, hdr.offset_meta)
             THEN [err |-> "IndexOutOfBounds", index |-> index, pos |-> p2]
             ELSE IF group_len % record_size # 0
             THEN [err |-> "GroupSizeMisaligned", index |-> index, pos |-> p2]
             ELSE IF DuplicateFound(index, m)
             THEN [err |-> "DuplicateMinimizer", index |-> index, pos |-> p2]
             ELSE ReadIndexLoop(f, hdr, p2, next_minimizer, next_offset,
                                Append(index, <<m, offset, group_len \div record_size>>))

NoCache == [min |-> 0, offset |-> 0, n |-> 0]

read_index(f, hdr) ==
    LET none == [err |-> "", index |-> <<>>, cache |-> NoCache, pos |-> 0]
    IN  IF hdr.offset_index = hdr.offset_meta THEN [none EXCEPT !.err = "EmptyIndex"]
        ELSE IF ~SeekOk(f, hdr.offset_index) THEN [none EXCEPT !.err = "ValueError"]
        ELSE LET min0 == get_int_field(f, hdr.offset_index, 4, TRUE)
                 p1        == Tell(f, hdr.offset_index, 4)
                 offset    == get_int_field(f, p1, 8, TRUE)
                 p2        == Tell(f, p1, 8)
                 loop      == ReadIndexLoop(f, hdr, p2, min0, offset, <<>>)
             IN  IF offset # hdr.offset_data
                 THEN [none EXCEPT !.err = "IndexMisaligned", !.pos = p2]
                 ELSE IF loop.err # ""
                 THEN [none EXCEPT !.err = loop.err, !.index = loop.index, !.pos = loop.pos]
                 ELSE IF ~InIndex(loop.index, min0)
                 THEN [none EXCEPT !.err = "KeyError", !.index = loop.index, !.pos = loop.pos]
                 ELSE [err   |-> "",
                       index |-> loop.index,
                       cache |-> [min    |-> min0,
                                  offset |-> IndexEntry(loop.index, min0)[2],
                                  n      |-> IndexEntry(loop.index, min0)[3]],
                       pos   |-> loop.pos]

---------------------------------------------------------------------------
(* IKCReader._search, IKCReader.get                                        *)

\* self.__kmer_bytes = self.__kmer_util.word_size * 4
kmer_bytes(hdr) == word_size(hdr.k_size) * 4

\* self.__count_bytes
count_bytes == 4

record_bytes(hdr) == kmer_bytes(hdr) + count_bytes

\* The upper end the binary search starts from.
SearchLast(n) == n

RECURSIVE SearchLoop(_, _, _, _, _, _, _, _)
\* The while loop of _search; p is the position of the mapping, probes the
\* values mid has taken.
SearchLoop(f, hdr, kmer, offset, first, last, p, probes) ==
    IF ~(first <= last)
    THEN [raised |-> FALSE, count |-> 0, pos |-> p, probes |-> probes]
    ELSE LET mid == (first + last) \div 2
             at  == offset + (mid * record_bytes(hdr))
             next_kmer == get_int_field(f, at, kmer_bytes(hdr), FALSE)
             p1  == Tell(f, at, kmer_bytes(hdr))
         IN  IF ~SeekOk(f, at)
             THEN [raised |-> TRUE, count |-> 0, pos |-> p, probes |-> Append(probes, mid)]
             ELSE IF next_kmer = kmer
             THEN [raised |-> FALSE,
                   count  |-> get_int_field(f, p1, count_bytes, TRUE),
                   pos    |-> Tell(f, p1, count_bytes),
                   probes |-> Append(probes, mid)]
             ELSE IF kmer > next_kmer
             THEN SearchLoop(f, hdr, kmer, offset, mid + 1, last, p1, Append(probes, mid))
             ELSE SearchLoop(f, hdr, kmer, offset, first, mid - 1, p1, Append(probes, mid))

search(f, hdr, kmer, offset, n, p) ==
    SearchLoop(f, hdr, kmer, offset, 0, SearchLast(n), p, <<>>)

NoRes == [called |-> FALSE, kmer |-> 0, raised |-> FALSE, value |-> 0,
          min_calls |-> 0, searches |-> 0, probes |-> <<>>, group |-> NoCache]

\* A get that never returns from the cached group.
NeverFoundInCached(count) == FALSE

\* if count > 0: return count
FoundInCached(count) == count > 0

\* A get that sets __last_min and leaves __last_min_offset and __last_min_n.
UpdateCacheMinOnly(c, index, m) == [c EXCEPT !.min = m]

\* self.__last_min = minimizer
\* self.__last_min_offset, self.__last_min_n = self.__min_index[minimizer]
UpdateCache(c, index, m) ==
    [min |-> m, offset |-> IndexEntry(index, m)[2], n |-> IndexEntry(index, m)[3]]

\* get(kmer) with the cache c and the mapping at position p: what it returns
\* (or that it raised), the cache and the position it leaves, the number of
\* calls of KmerUtil.minimizer and of _search it made, and the probes of its
\* first search, made in the group `group`.
get(f, hdr, index, c, p, kmer) ==
    LET s1 == search(f, hdr, kmer, c.offset, c.n, p)
        m  == minimizer(hdr.k_size, hdr.k_min_size, kmer)
        c2 == UpdateCache(c, index, m)
        s2 == search(f, hdr, kmer, c2.offset, c2.n, s1.pos)
        r0 == [called |-> TRUE, kmer |-> kmer, raised |-> FALSE, value |-> 0,
               min_calls |-> 0, searches |-> 1, probes |-> s1.probes, group |-> c]
    IN  IF s1.raised
        THEN [res |-> [r0 EXCEPT !.raised = TRUE], cache |-> c, pos |-> s1.pos]
        ELSE IF FoundInCached(s1.count)
        THEN [res |-> [r0 EXCEPT !.value = s1.count], cache |-> c, pos |-> s1.pos]
        ELSE IF m = c.min \/ ~InIndex(index, m)
        THEN [res |-> [r0 EXCEPT !.min_calls = 1], cache |-> c, pos |-> s1.pos]
        ELSE [res   |-> [r0 EXCEPT !.min_calls = 1, !.searches = 2,
                                   !.raised = s2.raised, !.value = s2.count],
              cache |-> c2,
              pos   |-> s2.pos]

---------------------------------------------------------------------------
(* IKCReader.iter_min_order                                                *)

RECURSIVE SortedSeq(_)
\* sorted(S) for a set of integers.
SortedSeq(S) ==
    IF S = {} THEN <<>>
    ELSE LET lo == CHOOSE x \in S : \A y \in S : x <= y
         IN  <<lo>> \o SortedSeq(S \ {lo})

IndexKeys(index) == {index[i][1] : i \in 1..Len(index)}

\* The order in which iter_min_order visits the groups.
MinOrderKeys(index) == SortedSeq(IndexKeys(index))

\* One (k-mer, count) record read at position p.
ReadRecord(f, hdr, p) ==
    <<get_int_field(f, p, kmer_bytes(hdr), FALSE),
      get_int_field(f, Tell(f, p, kmer_bytes(hdr)), count_bytes, TRUE)>>

TellRecord(f, hdr, p) == Tell(f, Tell(f, p, kmer_bytes(hdr)), count_bytes)

NoMinIter == [st |-> "none", keys |-> <<>>, entered |-> FALSE, i |-> 0, moved |-> 0,
              out |-> <<>>]

RECURSIVE MinOrderStep(_, _, _, _, _, _, _)
\* The generator from where it stands to its next yield: keys are the
\* minimizers still to finish (the current one first), entered says that the
\* current group was seeked to, i counts the records yielded from it, and p is
\* the position of the mapping, which the generator reads from as it finds it.
MinOrderStep(f, hdr, index, keys, entered, i, p) ==
    IF keys = <<>>
    THEN [kind |-> "stop", keys |-> keys, entered |-> FALSE, i |-> 0, pos |-> p, item |-> <<>>]
    ELSE LET e == IndexEntry(index, keys[1])
         IN  IF ~entered
             THEN IF ~SeekOk(f, e[2])
                  THEN [kind |-> "raise", keys |-> keys, entered |-> FALSE, i |-> 0,
                        pos |-> p, item |-> <<>>]
                  ELSE MinOrderStep(f, hdr, index, keys, TRUE, 0, e[2])
             ELSE IF i < e[3]
             THEN [kind |-> "yield", keys |-> keys, entered |-> TRUE, i |-> i + 1,
                   pos |-> TellRecord(f, hdr, p), item |-> ReadRecord(f, hdr, p)]
             ELSE MinOrderStep(f, hdr, index, Tail(keys), FALSE, 0, p)

---------------------------------------------------------------------------
(* IKCReader.iter_kmer_order                                               *)

\* group_dict entries, in insertion order.
GroupEntry(m, kmer, count, offset, last_offset) ==
    [minimizer |-> m, kmer |-> kmer, count |-> count, offset |-> offset,
     last_offset |-> last_offset]

\* last_offset of a group of n_elements records at offset.
GroupLastOffset(hdr, offset, n_elements) == offset + (n_elements + 1) * record_bytes(hdr)

RECURSIVE KmerOrderInit(_, _, _, _, _, _)
\* The first loop of iter_kmer_order: one cursor per entry of the index.
KmerOrderInit(f, hdr, index, i, gd, p) ==
    IF i > Len(index) THEN [raised |-> FALSE, gd |-> gd, pos |-> p]
    ELSE LET offset == index[i][2]
             rec    == ReadRecord(f, hdr, offset)
         IN  IF ~SeekOk(f, offset) THEN [raised |-> TRUE, gd |-> gd, pos |-> p]
             ELSE KmerOrderInit(f, hdr, index, i + 1,
                                Append(gd, GroupEntry(index[i][1], rec[1], rec[2], offset,
                                                      GroupLastOffset(hdr, offset, index[i][3]))),
                                TellRecord(f, hdr, offset))

NoCur == [set |-> FALSE, kmer |-> 0, count |-> 0, minimizer |-> 0]

\* min_kmer, min_count, min_minimizer: the first cursor, in dict order, with
\* the smallest k-mer (a later cursor replaces it only when strictly smaller).
FindMin(gd) ==
    IF gd = <<>> THEN NoCur
    ELSE LET i == CHOOSE i \in 1..Len(gd) :
                      /\ \A j \in 1..Len(gd) : gd[i].kmer <= gd[j].kmer
                      /\ \A j \in 1..(i - 1) : gd[i].kmer < gd[j].kmer
         IN  [set |-> TRUE, kmer |-> gd[i].kmer, count |-> gd[i].count,
              minimizer |-> gd[i].minimizer]

RemoveAt(s, i) == SubSeq(s, 1, i - 1) \o SubSeq(s, i + 1, Len(s))

NoKmerIter == [st |-> "none", gd |-> <<>>, cur |-> NoCur, out |-> <<>>]

\* One pass of the while loop of iter_kmer_order, up to its yield.
KmerOrderBody(f, hdr, gd, cur, p) ==
    LET i      == CHOOSE i \in 1..Len(gd) : gd[i].minimizer = cur.minimizer
        offset == gd[i].offset + record_bytes(hdr)
        rec    == ReadRecord(f, hdr, offset)
        gd1    == IF offset < gd[i].last_offset
                  THEN [gd EXCEPT ![i] = GroupEntry(gd[i].minimizer, rec[1], rec[2], offset,
                                                    gd[i].last_offset)]
                  ELSE RemoveAt(gd, i)
    IN  IF offset < gd[i].last_offset /\ ~SeekOk(f, offset)
        THEN [kind |-> "raise", gd |-> gd, cur |-> cur, pos |-> p, item |-> <<>>]
        ELSE [kind |-> "yield", gd |-> gd1, cur |-> FindMin(gd1),
              pos  |-> IF offset < gd[i].last_offset THEN TellRecord(f, hdr, offset) ELSE p,
              item |-> <<cur.kmer, cur.count>>]

---------------------------------------------------------------------------
(* The files the reader is opened on                                       *)

RECURSIVE Zeros(_)
Zeros(n) == IF n = 0 THEN <<>> ELSE <<0>> \o Zeros(n - 1)

\* The fields of a version 1 header, as bytes, in file order.
HeaderFields(k_size, k_min_size, offset_index, offset_meta) ==
    [magic |-> Magic, version |-> <<1>>, reserved |-> Zeros(7),
     k_min_size |-> <<k_min_size>>, k_size |-> ToBytes(k_size, 4),
     k_min_mask |-> Zeros(4), offset_index |-> ToBytes(offset_index, 8),
     offset_meta |-> ToBytes(offset_meta, 8), id_string |-> <<105, 107, 99>> \o Zeros(29)]

HeaderBytes(h) ==
    h.magic \o h.version \o h.reserved \o h.k_min_size \o h.k_size \o h.k_min_mask
        \o h.offset_index \o h.offset_meta \o h.id_string

\* The length of a whole header: where the data section starts.
HeaderLen == 80

RECURSIVE DataBytes(_, _)
\* Data records <<kmer, count>>: the k-mer in word_size_bytes bytes, the count in 4.
DataBytes(k_size, recs) ==
    IF recs = <<>> THEN <<>>
    ELSE ToBytes(recs[1][1], word_size_bytes(k_size)) \o ToBytes(recs[1][2], 4)
             \o DataBytes(k_size, Tail(recs))

RECURSIVE IndexBytes(_)
\* Index records <<minimizer, offset>>: 4 and 8 bytes.
IndexBytes(idx) ==
    IF idx = <<>> THEN <<>>
    ELSE ToBytes(idx[1][1], 4) \o ToBytes(idx[1][2], 8) \o IndexBytes(Tail(idx))

\* A file of the data records recs and the index records idx, the header
\* pointing at both.
RawFile(k_size, k_min_size, recs, idx) ==
    LET data == DataBytes(k_size, recs)
        oi   == HeaderLen + Len(data)
        om   == oi + Len(IndexBytes(idx))
    IN  HeaderBytes(HeaderFields(k_size, k_min_size, oi, om)) \o data \o IndexBytes(idx)

RECURSIVE GroupRecs(_)
GroupRecs(groups) ==
    IF groups = <<>> THEN <<>> ELSE groups[1][2] \o GroupRecs(Tail(groups))

RECURSIVE GroupIndex(_, _, _)
GroupIndex(k_size, groups, offset) ==
    IF groups = <<>> THEN <<>>
    ELSE <<<<groups[1][1], offset>>>>
             \o GroupIndex(k_size, Tail(groups),
                           offset + Len(groups[1][2]) * (word_size_bytes(k_size) + 4))

\* A file of the minimizer groups <<minimizer, records>>, stored in this order.
IKCFile(k_size, k_min_size, groups) ==
    RawFile(k_size, k_min_size, GroupRecs(groups), GroupIndex(k_size, groups, HeaderLen))

\* What a well-formed file holds: k_size, k_min_size and its minimizer groups
\* <<minimizer, <<kmer, count>>...>> in on-disk order.  With k_size = 13 the
\* k-mer takes 4 bytes on disk; with k_size = 4 it takes 1.
Contents ==
    { [k_size |-> 13, k_min_size |-> 2,
       groups |-> << <<0, << <<0, 5>>, <<3, 9>> >> >> >>],
      [k_size |-> 13, k_min_size |-> 2,
       groups |-> << <<0, << <<0, 5>>, <<3, 9>> >> >>,
                     <<5, << <<22369621, 7>> >> >> >>],
      [k_size |-> 13, k_min_size |-> 2,
       groups |-> << <<5, << <<22369621, 7>>, <<44739242, 2>> >> >>,
                     <<0, << <<0, 5>>, <<67108863, 1>> >> >>,
                     <<6, << <<26843545, 3>> >> >> >>],
      [k_size |-> 4, k_min_size |-> 2,
       groups |-> << <<0, << <<0, 5>>, <<3, 9>> >> >> >>],
      [k_size |-> 4, k_min_size |-> 2,
       groups |-> << <<0, << <<0, 5>>, <<3, 9>> >> >>,
                     <<5, << <<85, 7>> >> >> >>] }

FileOf(c) == IKCFile(c.k_size, c.k_min_size, c.groups)

WellFormedFiles == {FileOf(c) : c \in Contents}

\* Three data records of a 13-mer file (at 80, 88 and 96) under indexes that
\* break one rule each, or repeat a minimizer.
ThreeRecs == << <<0, 5>>, <<22369621, 7>>, <<26843545, 3>> >>

BadIndexFiles ==
    { RawFile(13, 2, ThreeRecs, idx) : idx \in
        { << <<0, 80>>, <<0, 88>>, <<5, 96>> >>,     \* records 1 and 2 repeat a minimizer
          << <<0, 80>>, <<5, 88>>, <<0, 96>> >>,     \* records 1 and 3
          << <<0, 80>>, <<5, 88>>, <<5, 96>> >>,     \* records 2 and 3
          << <<0, 80>>, <<0, 88>> >>,                \* two records, the same minimizer
          << <<0, 80>>, <<5, 80>> >>,                \* second offset equal to the first
          << <<0, 80>>, <<5, 96>>, <<6, 88>> >>,     \* third offset below the second
          << <<0, 80>>, <<5, 88>>, <<6, 140>> >>,    \* third offset at offset_meta
          << <<0, 88>>, <<5, 96>> >>,                \* first offset past offset_data
          << <<0, 80>>, <<5, 85>>, <<6, 96>> >>,     \* group length no multiple of the record size
          <<>> } }                                   \* no index

GoodHeader == HeaderFields(13, 2, 104, 140)

GoodBody ==
    DataBytes(13, ThreeRecs) \o IndexBytes(<< <<0, 80>>, <<5, 88>>, <<6, 96>> >>)

BadHeaderFiles ==
    { HeaderBytes(h) \o GoodBody : h \in
        { [GoodHeader EXCEPT !.magic = [Magic EXCEPT ![1] = 105]],
          [GoodHeader EXCEPT !.version = <<2>>],
          [GoodHeader EXCEPT !.reserved = [Zeros(7) EXCEPT ![3] = 1]],
          [GoodHeader EXCEPT !.k_min_size = <<0>>],
          [GoodHeader EXCEPT !.k_min_size = <<16>>],
          [GoodHeader EXCEPT !.k_size = Zeros(4)],
          [GoodHeader EXCEPT !.k_size = <<255, 255, 255, 255>>],
          [GoodHeader EXCEPT !.k_min_mask = <<0, 0, 0, 1>>],
          [GoodHeader EXCEPT !.offset_index = ToBytes(48, 8), !.offset_meta = ToBytes(60, 8)],
          [GoodHeader EXCEPT !.offset_index = <<255, 255, 255, 255, 255, 255, 255, 255>>],
          [GoodHeader EXCEPT !.offset_meta = ToBytes(152, 8)],
          [GoodHeader EXCEPT !.offset_meta = ToBytes(92, 8)] } }

TruncatedFiles ==
    { SubSeq(HeaderBytes(GoodHeader), 1, n) : n \in {0, 10, 20, 60} }

Files == WellFormedFiles \cup BadIndexFiles \cup BadHeaderFiles \cup TruncatedFiles

\* The k-mers looked up in a file of k_size-mers: records of the files, and
\* k-mers of no file (whose minimizer has a group, or has none).
Probes(k_size) ==
    IF k_size = 4 THEN {0, 1, 3, 17, 85, 86, 255}
    ELSE {0, 1, 3, 4473924, 22369621, 22369622, 26843545, 67108863}

---------------------------------------------------------------------------
(* The reader                                                              *)

\* No KmerUtil is under test while a reader is.
NoKmerUtil == [k_size |-> 0, k_min_size |-> 0, kmer |-> 0, called |-> FALSE, result |-> 0]

Init ==
    /\ file \in Files
    /\ state = "new"
    /\ error = ""
    /\ ikc_file = "None"
    /\ mmap_file = "None"
    /\ file_closes = 0
    /\ mmap_closes = 0
    /\ n_del = 0
    /\ pos = 0
    /\ ikc_header = NoHeader
    /\ min_index = <<>>
    /\ cache = NoCache
    /\ res = NoRes
    /\ it_min = NoMinIter
    /\ it_kmer = NoKmerIter
    /\ kutil = NoKmerUtil

\* What __init__ does after open() returned the file object: mmap.mmap raises
\* ValueError on an empty file; then get_header, then __read_index.
Construct(f) ==
    LET h == get_header(f)
        r == read_index(f, h.hdr)
        failed == [err |-> "", mmap |-> "open", hdr |-> NoHeader, index |-> <<>>,
                   cache |-> NoCache, pos |-> 0]
    IN  IF Len(f) = 0 THEN [failed EXCEPT !.err = "ValueError", !.mmap = "None"]
        ELSE IF h.err # "" THEN [failed EXCEPT !.err = h.err]
        ELSE [err |-> r.err, mmap |-> "open", hdr |-> h.hdr, index |-> r.index,
              cache |-> r.cache, pos |-> r.pos]

\* IKCReader(ikc_file_name)
Open ==
    /\ state = "new"
    /\ LET c == Construct(file)
       IN  /\ ikc_file' = "open"
           /\ mmap_file' = c.mmap
           /\ error' = c.err
           /\ state' = IF c.err = "" THEN "open" ELSE "failed"
           /\ ikc_header' = c.hdr
           /\ min_index' = c.index
           /\ cache' = c.cache
           /\ pos' = c.pos
    /\ UNCHANGED <<kutil, file, file_closes, mmap_closes, n_del, res, it_min, it_kmer>>

\* __del__ without the assignments of None.
NotReset == "open"

\* What __del__ leaves in a field whose object it closed.
Released == "None"

\* IKCReader.__del__: run when the reader is dropped, and again if it is
\* called by hand.
Del ==
    /\ state # "new"
    /\ n_del < MaxDel
    /\ n_del' = n_del + 1
    /\ IF mmap_file # "None"
       THEN mmap_closes' = mmap_closes + 1 /\ mmap_file' = Released
       ELSE UNCHANGED <<mmap_closes, mmap_file>>
    /\ IF ikc_file # "None"
       THEN file_closes' = file_closes + 1 /\ ikc_file' = Released
       ELSE UNCHANGED <<file_closes, ikc_file>>
    /\ UNCHANGED <<kutil, file, state, error, pos, ikc_header, min_index, cache, res, it_min, it_kmer>>

\* The reader was returned by the constructor and not torn down.
Usable == state = "open" /\ mmap_file = "open" /\ n_del = 0

\* A generator of iter_min_order that is between two yields reads on from the
\* position of the mapping: `moved` counts the operations that moved it
\* meanwhile.
Disturb(it) == IF it.st = "run" THEN [it EXCEPT !.moved = it.moved + 1] ELSE it

MayDisturb(it) == it.st # "run" \/ it.moved < MaxMoved

\* reader.get(kmer)
Get(kmer) ==
    /\ Usable
    /\ MayDisturb(it_min)
    /\ kmer <= k_mask(ikc_header.k_size)
    /\ LET g == get(file, ikc_header, min_index, cache, pos, kmer)
       IN  /\ res' = g.res
           /\ cache' = g.cache
           /\ pos' = g.pos
    /\ it_min' = Disturb(it_min)
    /\ UNCHANGED <<kutil, file, state, error, ikc_file, mmap_file, file_closes, mmap_closes, n_del,
                   ikc_header, min_index, it_kmer>>

\* reader.iter_min_order(): a new generator; nothing of its body has run.
IterMinOrder ==
    /\ Usable
    /\ it_min' = [NoMinIter EXCEPT !.st = "new"]
    /\ UNCHANGED <<kutil, file, state, error, ikc_file, mmap_file, file_closes, mmap_closes, n_del,
                   pos, ikc_header, min_index, cache, res, it_kmer>>

\* next() of the iter_min_order generator.
IterMinNext ==
    /\ Usable
    /\ it_min.st \in {"new", "run"}
    /\ LET keys == IF it_min.st = "new" THEN MinOrderKeys(min_index) ELSE it_min.keys
           r    == MinOrderStep(file, ikc_header, min_index, keys, it_min.entered, it_min.i, pos)
       IN  /\ it_min' = [st      |-> CASE r.kind = "yield" -> "run"
                                       [] r.kind = "stop"  -> "done"
                                       [] OTHER            -> "raised",
                         keys    |-> r.keys,
                         entered |-> r.entered,
                         i       |-> r.i,
                         moved   |-> it_min.moved,
                         out     |-> IF r.kind = "yield" THEN Append(it_min.out, r.item)
                                     ELSE it_min.out]
           /\ pos' = r.pos
    /\ UNCHANGED <<kutil, file, state, error, ikc_file, mmap_file, file_closes, mmap_closes, n_del,
                   ikc_header, min_index, cache, res, it_kmer>>

\* reader.iter_kmer_order(): a new generator.
IterKmerOrder ==
    /\ Usable
    /\ it_kmer' = [NoKmerIter EXCEPT !.st = "new"]
    /\ UNCHANGED <<kutil, file, state, error, ikc_file, mmap_file, file_closes, mmap_closes, n_del,
                   pos, ikc_header, min_index, cache, res, it_min>>

\* next() of the iter_kmer_order generator: the first one runs the loop that
\* sets the cursors up; each runs the while loop up to its yield.
IterKmerNext ==
    /\ Usable
    /\ it_kmer.st \in {"new", "run"}
    /\ MayDisturb(it_min)
    /\ LET init == IF it_kmer.st = "new"
                   THEN KmerOrderInit(file, ikc_header, min_index, 1, <<>>, pos)
                   ELSE [raised |-> FALSE, gd |-> it_kmer.gd, pos |-> pos]
           cur  == IF it_kmer.st = "new" THEN FindMin(init.gd) ELSE it_kmer.cur
           b    == KmerOrderBody(file, ikc_header, init.gd, cur, init.pos)
       IN  IF init.raised
           THEN /\ it_kmer' = [it_kmer EXCEPT !.st = "raised", !.gd = init.gd]
                /\ pos' = init.pos
           ELSE IF ~cur.set
           THEN /\ it_kmer' = [it_kmer EXCEPT !.st = "done", !.gd = init.gd, !.cur = cur]
                /\ pos' = init.pos
           ELSE /\ it_kmer' = [st  |-> IF b.kind = "yield" THEN "run" ELSE "raised",
                               gd  |-> b.gd,
                               cur |-> b.cur,
                               out |-> IF b.kind = "yield" THEN Append(it_kmer.out, b.item)
                                       ELSE it_kmer.out]
                /\ pos' = b.pos
    /\ it_min' = Disturb(it_min)
    /\ UNCHANGED <<kutil, file, state, error, ikc_file, mmap_file, file_closes, mmap_closes, n_del,
                   ikc_header, min_index, cache, res>>

Next ==
    \/ Open
    \/ Del
    \/ \E kmer \in Probes(ikc_header.k_size) : Get(kmer)
    \/ IterMinOrder
    \/ IterMinNext
    \/ IterKmerOrder
    \/ IterKmerNext

Spec == Init /\ [][Next]_vars

---------------------------------------------------------------------------
(* KmerUtil.minimizer on its own                                           *)

\* KmerUtil(k_size, k_min_size) for every 0 < k_min_size <= k_size <= MaxKSize
\* and every k-mer within its k_mask; no reader.
InitKmerUtil ==
    /\ file = <<>>
    /\ state = "new"
    /\ error = ""
    /\ ikc_file = "None"
    /\ mmap_file = "None"
    /\ file_closes = 0
    /\ mmap_closes = 0
    /\ n_del = 0
    /\ pos = 0
    /\ ikc_header = NoHeader
    /\ min_index = <<>>
    /\ cache = NoCache
    /\ res = NoRes
    /\ it_min = NoMinIter
    /\ it_kmer = NoKmerIter
    /\ \E k_size \in 1..MaxKSize : \E k_min_size \in 1..k_size :
          \E kmer \in 0..k_mask(k_size) :
             kutil = [k_size |-> k_size, k_min_size |-> k_min_size, kmer |-> kmer,
                      called |-> FALSE, result |-> 0]

\* kutil.minimizer(kmer)
Minimizer ==
    /\ ~kutil.called
    /\ kutil.k_min_size # 0
    /\ kutil' = [kutil EXCEPT !.called = TRUE,
                              !.result = minimizer(kutil.k_size, kutil.k_min_size, kutil.kmer)]
    /\ UNCHANGED <<file, state, error, ikc_file, mmap_file, file_closes, mmap_closes, n_del,
                   pos, ikc_header, min_index, cache, res, it_min, it_kmer>>

NextKmerUtil == Minimizer

SpecKmerUtil == InitKmerUtil /\ [][NextKmerUtil]_vars

---------------------------------------------------------------------------
(* What the files hold, for the statements below                           *)

WellFormed == file \in WellFormedFiles

\* The contents the file was written from.
TheContent == CHOOSE c \in Contents : FileOf(c) = file

AllRecs(c) == GroupRecs(c.groups)

\* Within each group the k-mers ascend, no k-mer is stored twice, every k-mer
\* lies in the group of its minimizer, no minimizer has two groups and every
\* count is positive.
ValidContent(c) ==
    /\ \A g \in 1..Len(c.groups) :
          LET recs == c.groups[g][2]
          IN  /\ Len(recs) >= 1
              /\ \A i \in 1..(Len(recs) - 1) : recs[i][1] < recs[i + 1][1]
              /\ \A i \in 1..Len(recs) :
                    /\ minimizer(c.k_size, c.k_min_size, recs[i][1]) = c.groups[g][1]
                    /\ recs[i][1] <= k_mask(c.k_size)
                    /\ recs[i][2] > 0
    /\ \A g, h \in 1..Len(c.groups) : c.groups[g][1] = c.groups[h][1] => g = h
    /\ \A i, j \in 1..Len(AllRecs(c)) : AllRecs(c)[i][1] = AllRecs(c)[j][1] => i = j

\* The count the file stores for kmer, 0 when it stores none.
StoredCount(c, kmer) ==
    IF \E i \in 1..Len(AllRecs(c)) : AllRecs(c)[i][1] = kmer
    THEN AllRecs(c)[CHOOSE i \in 1..Len(AllRecs(c)) : AllRecs(c)[i][1] = kmer][2]
    ELSE 0

RECURSIVE ExpectedIndexFrom(_, _, _)
\* minimizer -> (offset, number of records) for every group, in file order.
ExpectedIndexFrom(c, g, offset) ==
    IF g > Len(c.groups) THEN <<>>
    ELSE <<<<c.groups[g][1], offset, Len(c.groups[g][2])>>>>
             \o ExpectedIndexFrom(c, g + 1,
                                  offset + Len(c.groups[g][2]) * (word_size_bytes(c.k_size) + 4))

ExpectedIndex(c) == ExpectedIndexFrom(c, 1, HeaderLen)

RECURSIVE RecsInMinOrder(_, _)
\* The records of the groups of c, the groups taken in the order keys.
RecsInMinOrder(c, keys) ==
    IF keys = <<>> THEN <<>>
    ELSE c.groups[CHOOSE g \in 1..Len(c.groups) : c.groups[g][1] = keys[1]][2]
             \o RecsInMinOrder(c, Tail(keys))

ExpectedMinOrder(c) ==
    RecsInMinOrder(c, SortedSeq({c.groups[g][1] : g \in 1..Len(c.groups)}))

RECURSIVE SumCounts(_)
\* The sum of the group counts of an index.
SumCounts(index) == IF index = <<>> THEN 0 ELSE index[1][3] + SumCounts(Tail(index))

StrictlyAscending(out) == \A i \in 1..(Len(out) - 1) : out[i][1] < out[i + 1][1]

\* The index records between offset_index and offset_meta, as <<minimizer,
\* offset>>, read where they lie on disk.
DiskIndex(f, hdr) ==
    LET n == IF SeekOk(f, hdr.offset_index) /\ hdr.offset_meta > hdr.offset_index
             THEN (hdr.offset_meta - hdr.offset_index + 11) \div 12
             ELSE 0
    IN  [i \in 1..n |->
            <<get_int_field(f, hdr.offset_index + 12 * (i - 1), 4, FALSE),
              get_int_field(f, Tell(f, hdr.offset_index + 12 * (i - 1), 4), 8, FALSE)>>]

---------------------------------------------------------------------------
(* The claims                                                              *)

\* C1: on a well-formed file (one with a single minimizer group included) the
\* reader opens, and every get(kmer), whatever the cache holds, returns the
\* count stored for kmer, or 0 when the file stores none.
C1_GetReturnsStoredCount ==
    (WellFormed /\ ValidContent(TheContent)) =>
        /\ state # "failed"
        /\ res.called => (~res.raised /\ res.value = StoredCount(TheContent, res.kmer))

\* C2: for a valid on-disk index of n >= 1 records open succeeds and the
\* in-memory index has exactly the n entries m_i -> (off_i, count_i), the
\* last-read minimizer with (offset_meta - off_last) / record_size included.
C2_IndexHasEveryGroup ==
    (WellFormed /\ ValidContent(TheContent) /\ state # "new") =>
        /\ state = "open"
        /\ min_index = ExpectedIndex(TheContent)

\* The width of a k-mer is the same for the index (word_size_bytes) and for
\* the lookups and generators (kmer_bytes): so it is for 13-mers, not for 4-mers.
SameWidth == ikc_header.set /\ kmer_bytes(ikc_header) = word_size_bytes(ikc_header.k_size)

\* C3: iter_kmer_order yields strictly ascending k-mers, and when it is
\* exhausted it has yielded as many records as the group counts of the index
\* add up to: each group gives its own group_count records and none from
\* beyond its end.  Stated for the files on which index and generator agree on
\* the record width.
C3_KmerOrderAscendingAndComplete ==
    (WellFormed /\ ValidContent(TheContent) /\ SameWidth) =>
        /\ StrictlyAscending(it_kmer.out)
        /\ it_kmer.st = "done" => Len(it_kmer.out) = SumCounts(min_index)

\* C4: iter_min_order, consumed with nothing else run on the reader, yields
\* the records group by group in ascending minimizer order, each group's
\* records as they are stored on disk.
C4_MinOrderMatchesDisk ==
    (WellFormed /\ ValidContent(TheContent) /\ it_min.st = "done" /\ it_min.moved = 0) =>
        it_min.out = ExpectedMinOrder(TheContent)

\* C5: open fails whenever two index records on disk, at any two positions,
\* hold the same minimizer.
C5_DuplicateMinimizerRejected ==
    state = "open" =>
        \A i, j \in DOMAIN DiskIndex(file, ikc_header) :
            DiskIndex(file, ikc_header)[i][1] = DiskIndex(file, ikc_header)[j][1] => i = j

\* The offsets of the index records on disk break a rule: the first is not
\* offset_data, or a later one is not above the one before it and below
\* offset_meta.
OffsetsOutOfOrder(f, hdr) ==
    LET d == DiskIndex(f, hdr)
    IN  /\ Len(d) >= 1
        /\ \/ d[1][2] # hdr.offset_data
           \/ \E i \in 2..Len(d) : ~(d[i - 1][2] < d[i][2] /\ d[i][2] < hdr.offset_meta)

\* C6: open fails whenever an index record after the first has an offset that
\* is not above the offset before it and below offset_meta, and whenever the
\* first offset is not offset_data; in an index that open accepted the offsets
\* ascend strictly from offset_data.
C6_OffsetsOutOfOrderRejected ==
    /\ (state # "new" /\ ikc_header.set /\ OffsetsOutOfOrder(file, ikc_header)) => state = "failed"
    /\ state = "open" =>
          /\ min_index[1][2] = ikc_header.offset_data
          /\ \A i \in 2..Len(min_index) : min_index[i - 1][2] < min_index[i][2]

\* C6, its case: the second index record's offset does not exceed the first's
\* and open failed on the bounds check.
C6_Witness ==
    /\ state = "failed"
    /\ error = "IndexOutOfBounds"
    /\ Len(DiskIndex(file, ikc_header)) >= 2
    /\ DiskIndex(file, ikc_header)[1][2] = ikc_header.offset_data
    /\ DiskIndex(file, ikc_header)[2][2] <= DiskIndex(file, ikc_header)[1][2]

\* C7: every header the parser produced has
\* 0 <= offset_data <= offset_index <= offset_meta <= offset_eof.
C7_HeaderOffsetsOrdered ==
    ikc_header.set =>
        /\ 0 <= ikc_header.offset_data
        /\ ikc_header.offset_data <= ikc_header.offset_index
        /\ ikc_header.offset_index <= ikc_header.offset_meta
        /\ ikc_header.offset_meta <= ikc_header.offset_eof

\* The constructor acquired the mapping (mmap.mmap fails on an empty file).
MmapAcquired == state # "new" /\ Len(file) > 0

\* C8: the file object and the mapping are closed at most once, whatever the
\* constructor did and however often the reader is torn down; once it was torn
\* down each of them that was acquired has been closed exactly once and the
\* reader holds neither; and a constructor that failed returned no reader.
C8_ReleasedExactlyOnce ==
    /\ file_closes <= 1
    /\ mmap_closes <= 1
    /\ n_del >= 1 =>
          /\ file_closes = 1
          /\ ikc_file = "None"
          /\ mmap_closes = (IF MmapAcquired THEN 1 ELSE 0)
          /\ mmap_file = "None"
    /\ state = "failed" => (~res.called /\ it_min.st = "none" /\ it_kmer.st = "none")

\* C8, its case: the constructor failed on the magic bytes with the file and
\* the mapping acquired, and the reader was torn down twice.
C8_Witness ==
    /\ state = "failed"
    /\ error = "BadMagic"
    /\ n_del = 2
    /\ file_closes = 1
    /\ mmap_closes = 1

\* The lookup of kmer in the group that was cached when get was called gives
\* a positive count.
CachedLookupHit ==
    search(file, ikc_header, res.kmer, res.group.offset, res.group.n, 0).count > 0

\* C9 as claimed: a get(kmer) called while the cached group is the group of
\* kmer's minimizer completes without a call of KmerUtil.minimizer.
C9_NoMinimizerCallInCachedGroup ==
    (res.called
        /\ minimizer(ikc_header.k_size, ikc_header.k_min_size, res.kmer) = res.group.min)
    => res.min_calls = 0

\* C9 as amended: a get(kmer) whose lookup in the cached group finds kmer with
\* a positive count completes without a call of KmerUtil.minimizer and without
\* a second lookup; no get calls KmerUtil.minimizer more than once.
C9_NoMinimizerCallOnCachedHit ==
    res.called =>
        /\ CachedLookupHit => (res.min_calls = 0 /\ res.searches = 1 /\ res.value > 0)
        /\ res.min_calls <= 1

\* C9, its case: a k-mer of the cached group was looked up and found there.
C9_Witness ==
    /\ res.called
    /\ CachedLookupHit
    /\ minimizer(ikc_header.k_size, ikc_header.k_min_size, res.kmer) = res.group.min
    /\ res.value > 0
    /\ res.min_calls = 0

\* C10: get(kmer) of a k-mer whose minimizer is no key of the in-memory index
\* returns 0 and does not raise, whatever the cache holds.
C10_AbsentMinimizerReturnsZero ==
    (res.called
        /\ ~InIndex(min_index, minimizer(ikc_header.k_size, ikc_header.k_min_size, res.kmer)))
    => (~res.raised /\ res.value = 0)

\* The base at position j of a k-mer, position 0 the last base (the low bits).
Base(x, j) == (x \div Pow4(j)) % 4

RECURSIVE RevCompFrom(_, _, _)
\* The reverse complement of an n-mer, base by base: base j of x, complemented,
\* goes to position n - 1 - j.
RevCompFrom(n, x, j) ==
    IF j = n THEN 0
    ELSE (3 - Base(x, j)) * Pow4(n - 1 - j) + RevCompFrom(n, x, j + 1)

RevCompOf(n, x) == RevCompFrom(n, x, 0)

\* The substring of length k_min_size of x that ends i bases before the end.
Substring(x, k_min_size, i) == (x \div Pow4(i)) % Pow4(k_min_size)

Substrings(k_size, k_min_size, x) ==
    {Substring(x, k_min_size, i) : i \in 0..(k_size - k_min_size)}

\* Every substring of length k_min_size of x and its reverse complement.
Candidates(k_size, k_min_size, x) ==
    Substrings(k_size, k_min_size, x)
        \cup {RevCompOf(k_min_size, s) : s \in Substrings(k_size, k_min_size, x)}

\* C11: for every 0 < k_min_size <= k_size and every k-mer x within k_mask,
\* minimizer(x) is the least, as an unsigned integer, of the k_size - k_min_size + 1
\* overlapping substrings of length k_min_size of x and their reverse complements.
C11_MinimizerIsLeastCandidate ==
    kutil.called =>
        /\ kutil.result \in Candidates(kutil.k_size, kutil.k_min_size, kutil.kmer)
        /\ \A c \in Candidates(kutil.k_size, kutil.k_min_size, kutil.kmer) : kutil.result <= c

\* C11, its case: the minimizer is the reverse complement of the first
\* substring (the one the loop reaches last), is no substring itself, and is
\* below every substring.
C11_Witness ==
    /\ kutil.called
    /\ kutil.k_size - kutil.k_min_size >= 2
    /\ kutil.result \notin Substrings(kutil.k_size, kutil.k_min_size, kutil.kmer)
    /\ kutil.result = RevCompOf(kutil.k_min_size,
                                Substring(kutil.kmer, kutil.k_min_size,
                                          kutil.k_size - kutil.k_min_size))
    /\ \A i \in 0..(kutil.k_size - kutil.k_min_size - 1) :
          kutil.result < RevCompOf(kutil.k_min_size,
                                   Substring(kutil.kmer, kutil.k_min_size, i))

RECURSIVE RunMinOrder(_, _, _, _, _, _, _, _)
\* An iter_min_order generator pulled to its end with nothing else run on the
\* reader: what it yields and how it ends ("stop" or "raise").
RunMinOrder(f, hdr, index, keys, entered, i, p, out) ==
    LET r == MinOrderStep(f, hdr, index, keys, entered, i, p)
    IN  IF r.kind = "yield"
        THEN RunMinOrder(f, hdr, index, r.keys, r.entered, r.i, r.pos, Append(out, r.item))
        ELSE [kind |-> r.kind, out |-> out]

MinOrderAlone ==
    RunMinOrder(file, ikc_header, min_index, MinOrderKeys(min_index), FALSE, 0, 0, <<>>)

RECURSIVE RunKmerOrder(_, _, _, _, _, _)
\* The while loop of an iter_kmer_order generator pulled to its end with
\* nothing else run on the reader.
RunKmerOrder(f, hdr, gd, cur, p, out) ==
    IF ~cur.set THEN [kind |-> "stop", out |-> out]
    ELSE LET b == KmerOrderBody(f, hdr, gd, cur, p)
         IN  IF b.kind = "yield"
             THEN RunKmerOrder(f, hdr, b.gd, b.cur, b.pos, Append(out, b.item))
             ELSE [kind |-> "raise", out |-> out]

KmerOrderAlone ==
    LET init == KmerOrderInit(file, ikc_header, min_index, 1, <<>>, 0)
    IN  IF init.raised THEN [kind |-> "raise", out |-> <<>>]
        ELSE RunKmerOrder(file, ikc_header, init.gd, FindMin(init.gd), init.pos, <<>>)

IsPrefix(a, b) == Len(a) <= Len(b) /\ a = SubSeq(b, 1, Len(a))

\* What a generator has yielded so far, and how it ended, is what it yields
\* and how it ends when it is consumed alone.
SameAsAlone(it, alone) ==
    it.st \in {"run", "done", "raised"} =>
        /\ IsPrefix(it.out, alone.out)
        /\ it.st = "done" => (it.out = alone.out /\ alone.kind = "stop")
        /\ it.st = "raised" => (it.out = alone.out /\ alone.kind = "raise")

\* C12, iter_kmer_order alone: it seeks before every read.
KmerOrderSameAsAlone == SameAsAlone(it_kmer, KmerOrderAlone)

\* C12: whatever get() calls and pulls of the other generator run between the
\* pulls of an iter_min_order or iter_kmer_order generator, it yields the
\* sequence it yields when it is consumed alone.
C12_IteratorsDoNotInterfere ==
    /\ SameAsAlone(it_min, MinOrderAlone)
    /\ SameAsAlone(it_kmer, KmerOrderAlone)

\* Record i (from 0) of the group at offset, as the lookup addresses it.
GroupRecord(f, hdr, offset, i) == ReadRecord(f, hdr, offset + i * record_bytes(hdr))

\* The count the group of n records at offset stores for kmer, 0 when none of
\* its n records holds kmer.
CountInGroup(f, hdr, kmer, offset, n) ==
    IF \E i \in 0..(n - 1) : GroupRecord(f, hdr, offset, i)[1] = kmer
    THEN GroupRecord(f, hdr, offset,
                     CHOOSE i \in 0..(n - 1) : GroupRecord(f, hdr, offset, i)[1] = kmer)[2]
    ELSE 0

\* C13: the lookup that get() makes in the cached group of group_count records
\* probes only record indexes 0 <= mid < group_count, does not raise, and
\* returns the count stored with kmer in one of those records, 0 when none of
\* them holds kmer.
C13_LookupStaysInGroup ==
    res.called =>
        LET s == search(file, ikc_header, res.kmer, res.group.offset, res.group.n, 0)
        IN  /\ \A i \in 1..Len(res.probes) : 0 <= res.probes[i] /\ res.probes[i] < res.group.n
            /\ ~s.raised
            /\ s.count = CountInGroup(file, ikc_header, res.kmer, res.group.offset, res.group.n)

\* ceil(k_size / 4)
CeilQuarter(k_size) == (k_size + 3) \div 4

\* C14: for every k_size >= 1 the record width by which the lookup and the
\* generators address records is the width by which the index builder turns
\* byte lengths into group counts, and both are ceil(k_size / 4) + 4 bytes.
C14_OneRecordWidth ==
    (state = "open" /\ ikc_header.k_size >= 1) =>
        /\ record_bytes(ikc_header) = index_record_size(ikc_header)
        /\ index_record_size(ikc_header) = CeilQuarter(ikc_header.k_size) + 4

\* The cached minimizer is a key of the index and the cached offset and count
\* are its entry.
CacheCoherent ==
    /\ InIndex(min_index, cache.min)
    /\ cache.offset = IndexEntry(min_index, cache.min)[2]
    /\ cache.n = IndexEntry(min_index, cache.min)[3]

\* The last get() missed in the cached group and the minimizer of its k-mer
\* is the cached one or no key of the index.
MissWithoutGroup ==
    /\ res.called
    /\ ~res.raised
    /\ ~CachedLookupHit
    /\ LET m == minimizer(ikc_header.k_size, ikc_header.k_min_size, res.kmer)
       IN  m = res.group.min \/ ~InIndex(min_index, m)

\* C15: once open succeeded, and after every get() whatever it did, the cached
\* minimizer is a key of the index and the cached (offset, count) is its
\* entry; a get() that misses in the cached group and whose minimizer is the
\* cached one or absent from the index returns 0 and leaves the cache as it
\* was; and nothing run on the open reader changes the index.
C15_CacheCoherent ==
    /\ [](state = "open" =>
            /\ CacheCoherent
            /\ MissWithoutGroup => (res.value = 0 /\ cache = res.group))
    /\ [][state = "open" => min_index' = min_index]_vars

\* C15, its case: an earlier get() moved the cache off the group open seeded
\* it with, and the last get(), of a k-mer whose minimizer is no key of the
\* index, returned 0 and left it there.
C15_Witness ==
    /\ state = "open"
    /\ cache.min # min_index[1][1]
    /\ CacheCoherent
    /\ res.called
    /\ ~res.raised
    /\ res.value = 0
    /\ res.min_calls = 1
    /\ ~InIndex(min_index, minimizer(ikc_header.k_size, ikc_header.k_min_size, res.kmer))
    /\ cache = res.group

====
